---------------------------- MODULE Spec2Model ----------------------------
(***************************************************************************)
(* State-machine model of SimpleBot (src/bot.py): the roster (admin and    *)
(* regular sets, persisted in bot_users.json), the per-user pending roster *)
(* action (context.user_data), the daily response log (bot_logs.json) and  *)
(* the job queue holding the 15-minute re-ask reminders.                   *)
(*                                                                         *)
(* Update handlers run one at a time (the Application is built without     *)
(* concurrent_updates, src/bot.py:716), so each handler is one action.     *)
(* Outcomes of the environment are inputs of the action, drawn with \E: a  *)
(* write of the log file that raises, and a send to one admin that raises  *)
(* inside the notification loop.                                          *)
(***************************************************************************)
EXTENDS Integers, Sequences, FiniteSets, TLC

\* ---------------------------------------------------------------- bounds
NumUsers == 3
NumResponders == 2
NumDates == 2
MaxResponses == 2
MaxTicks == 2

\* ------------------------------------------------------ program constants
REMINDER_DELAY == 900

Users == 1..NumUsers
\* The users who answer the question in a run.
Responders == 1..NumResponders
Dates == 1..NumDates
TickSeconds == REMINDER_DELAY \div 2

admin_code == <<"A", "d", "m", "i", "n", "2", "0", "2", "4">>

VARIABLES
    admin_users,    \* self.admin_users
    regular_users,  \* self.regular_users
    user_data,      \* context.user_data[u]: the pending action of user u
    users_file,     \* bot_users.json
    log_file,       \* bot_logs.json
    today,          \* date.today()
    now,            \* the clock, in seconds
    jobs,           \* context.job_queue: the scheduled one-shot jobs
    sent,           \* the transport calls of the last step, in order
    console,        \* what the last step only logged locally
    update,         \* the update or job the last step handled
    taps,           \* number of yes/no taps handled so far (bounds the run)
    daily           \* the run of the daily_message job: its loop over self.regular_users

vars == <<admin_users, regular_users, user_data, users_file, log_file,
          today, now, jobs, sent, console, update, taps, daily>>

\* ------------------------------------------------------------ dictionaries
EmptyDict == [k \in {} |-> k]

Put(d, k, v) == [x \in (DOMAIN d) \cup {k} |-> IF x = k THEN v ELSE d[x]]

\* A Python dict key is typed: the int 111 and the str "111" are different
\* keys.  json.dump writes every key as a str.
IntKey(n) == [type |-> "int", val |-> n]

str(n) == [type |-> "str", val |-> n]

\* user_info of handle_yes_choice / handle_no_choice: "@name" or "User ID: n".
user_info(u) == [handle |-> u]

\* ---------------------------------------------------------------- the log
NewDay(d) ==
    [date |-> d, total_responses |-> 0, yes_responses |-> 0,
     no_responses |-> 0, users |-> EmptyDict, responses |-> << >>]

NewUserEntry(username) ==
    [username |-> username, total_responses |-> 0, yes_count |-> 0, no_count |-> 0]

\* json.load of the log file; a file that does not parse reads as {}.
read_logs(f) == IF f.valid THEN f.logs ELSE EmptyDict

ensure_day(logs, d) == IF d \in DOMAIN logs THEN logs ELSE Put(logs, d, NewDay(d))

bump_day_BUG(day, response) ==
    [day EXCEPT !.total_responses = @ + 1,
                !.yes_responses = IF response = "yes" THEN @ + 1 ELSE @]

bump_day(day, response) ==
    [day EXCEPT !.total_responses = @ + 1,
                !.yes_responses = IF response = "yes" THEN @ + 1 ELSE @,
                !.no_responses = IF response = "yes" THEN @ ELSE @ + 1]

\* `user_id not in users` tests the int key; the entries are stored under str(user_id).
ensure_user(users, user_id, username) ==
    IF IntKey(user_id) \notin DOMAIN users
        THEN Put(users, str(user_id), NewUserEntry(username))
        ELSE users

bump_user(users, user_id, response) ==
    [users EXCEPT ![str(user_id)] =
        [@ EXCEPT !.total_responses = @ + 1,
                  !.yes_count = IF response = "yes" THEN @ + 1 ELSE @,
                  !.no_count = IF response = "yes" THEN @ ELSE @ + 1]]

response_entry(timestamp, user_id, username, response) ==
    [timestamp |-> timestamp, user_id |-> user_id, username |-> username,
     response |-> response]

logged_BUG(logs, d, user_id, username, response, timestamp) ==
    LET l1 == ensure_day(logs, d)
    IN  IF \E i \in 1..Len(l1[d].responses) : l1[d].responses[i].user_id = user_id
           THEN l1
           ELSE Put(l1, d, [bump_day(l1[d], response) EXCEPT
                               !.responses = Append(@, response_entry(timestamp, user_id, username, response))])

\* The dict log_response builds and hands to json.dump.
logged(logs, d, user_id, username, response, timestamp) ==
    LET l1 == ensure_day(logs, d)
        day1 == bump_day(l1[d], response)
        users1 == ensure_user(day1.users, user_id, username)
        users2 == bump_user(users1, user_id, response)
        day2 == [day1 EXCEPT !.users = users2,
                             !.responses = Append(@, response_entry(timestamp, user_id, username, response))]
    IN  Put(l1, d, day2)

\* open(log_file, 'w') + json.dump: "ok" writes the dict; "open_failed" raises
\* before the file is touched; "dump_failed" raises after the file was truncated.
WriteOutcomes == {"ok", "open_failed", "dump_failed"}

write_logs(f, logs, outcome) ==
    CASE outcome = "ok" -> [valid |-> TRUE, logs |-> logs]
      [] outcome = "open_failed" -> f
      [] OTHER -> [valid |-> FALSE, logs |-> EmptyDict]

log_response(f, d, user_id, username, response, timestamp, outcome) ==
    write_logs(f, logged(read_logs(f), d, user_id, username, response, timestamp), outcome)


\* ------------------------------------------------------------------ texts
\* A text is a sequence of characters; "sup2" stands for the one character
\* U+00B2, which str.isdigit() accepts and int() rejects.
DigitChars == <<"0", "1", "2", "3", "4", "5", "6", "7", "8", "9">>

Chr(n) == DigitChars[n + 1]

IsDecimalChar(c) == \E i \in 1..Len(DigitChars) : DigitChars[i] = c

DigitVal(c) == (CHOOSE i \in 1..Len(DigitChars) : DigitChars[i] = c) - 1

\* str.isdigit(): non-empty and every character a digit character.
isdigit(text) ==
    Len(text) > 0 /\ \A i \in 1..Len(text) : IsDecimalChar(text[i]) \/ text[i] = "sup2"

\* int(text) raises ValueError unless every character is a decimal digit.
int_raises(text) == \E i \in 1..Len(text) : ~IsDecimalChar(text[i])

RECURSIVE int(_)
int(text) ==
    IF Len(text) = 0 THEN 0
    ELSE 10 * int(SubSeq(text, 1, Len(text) - 1)) + DigitVal(text[Len(text)])

startswith_at(text) == Len(text) > 0 /\ text[1] = "@"

wrong_case_code == <<"a", "d", "m", "i", "n", "2", "0", "2", "4">>

\* The text messages users send: every user's ID, an ID with a leading zero,
\* a handle, free text, the admin code, the code in another case, and a
\* digit character that is not decimal.
Texts ==
    {<<Chr(u)>> : u \in Users} \cup
    {<<"0", Chr(1)>>, <<"@", "b", "o", "b">>, <<"h", "i">>, admin_code,
     wrong_case_code, <<"sup2">>}

\* ----------------------------------------------------------------- roster
NoAction == "none"

PendingActions == {"user_make_admin", "user_remove_admin"}

Roster(a, r) == [admins |-> a, regulars |-> r]

\* handle_message, action user_make_admin.
make_admin_BUG(admins, regulars, target) == Roster(admins \cup {target}, regulars)

make_admin(admins, regulars, target) ==
    Roster(admins \cup {target}, regulars \ {target})

demote_BUG(admins, regulars, target) == Roster(admins \ {target}, regulars)

\* handle_message, action user_remove_admin, target in the admin set; also
\* exit_command and the admin_exit button.
demote(admins, regulars, target) ==
    Roster(admins \ {target}, regulars \cup {target})

\* handle_message, action user_remove_admin: `if target_user_id in self.admin_users`.
remove_applies_BUG(admins, target) == TRUE

remove_applies(admins, target) == target \in admins

\* handle_message, the text equals the admin code.
grant_admin_BUG(admins, regulars, user_id) == Roster(admins \cup {user_id}, regulars)

grant_admin(admins, regulars, user_id) ==
    Roster(admins \cup {user_id}, regulars \ {user_id})

\* start_command, regular user flow.
register_regular_BUG(admins, regulars, user_id) == Roster(admins, regulars)

register_regular(admins, regulars, user_id) ==
    Roster(admins, regulars \cup {user_id})

save_users_BUG(f, admins, regulars, outcome) == f

\* bot_users.json after save_users: the exception of a failed write is caught
\* and logged, so the handler always goes on.
save_users(f, admins, regulars, outcome) ==
    CASE outcome = "ok" -> [valid |-> TRUE, admins |-> admins, regular_users |-> regulars]
      [] outcome = "open_failed" -> f
      [] OTHER -> [valid |-> FALSE, admins |-> {}, regular_users |-> {}]

\* --------------------------------------------------------------- messages
\* An incoming update: a command, a text message or a button tap of user u.
Update(kind, u, data) == [kind |-> kind, user |-> u, data |-> data]

\* One transport call: reply_text, edit_message_text or bot.send_message.
Msg(to, kind, arg, ok) == [to |-> to, kind |-> kind, arg |-> arg, ok |-> ok]

NOT_AVAILABLE == "This command is not available."

NOT_IN_ADMIN_MODE == "You are not in admin mode."


\* ------------------------------------------------------------------- Init
\* load_users: the two sets of a file that parses; both stay empty otherwise.
\* The daily_message job between runs.  While it runs, `size` is the size of
\* self.regular_users when the loop began and `start` the set at that moment,
\* `current` the ID whose send_message is awaited, `yielded` the IDs whose
\* send has been attempted and has ended, `failed` those whose send raised.
NoBroadcast ==
    [pc |-> "idle", size |-> 0, current |-> 0, start |-> {}, yielded |-> {}, failed |-> {}]

load_users(f) == IF f.valid THEN Roster(f.admins, f.regular_users) ELSE Roster({}, {})

\* The roster files a previous run can have left: any two disjoint sets.
InitialUsersFiles ==
    {[valid |-> TRUE, admins |-> a, regular_users |-> r] :
        <<a, r>> \in {p \in (SUBSET Users) \X (SUBSET Users) : p[1] \cap p[2] = {}}}

\* __init__: user_data and the job queue are not persisted and start empty.
Init ==
    /\ users_file \in InitialUsersFiles
    /\ admin_users = load_users(users_file).admins
    /\ regular_users = load_users(users_file).regulars
    /\ user_data = [u \in Users |-> NoAction]
    /\ log_file = [valid |-> TRUE, logs |-> EmptyDict]
    /\ today = 1
    /\ now = 0
    /\ jobs = << >>
    /\ sent = << >>
    /\ console = {}
    /\ update = Update("none", 0, << >>)
    /\ taps = 0
    /\ daily = NoBroadcast

\* The roster becomes ro and is saved.
SetRoster(ro, save) ==
    /\ admin_users' = ro.admins
    /\ regular_users' = ro.regulars
    /\ users_file' = save_users(users_file, ro.admins, ro.regulars, save)

rosterVars == <<admin_users, regular_users, users_file>>

logVars == <<log_file, today, now, jobs, taps, daily>>

\* --------------------------------------------------------------- commands
\* /start
start_command(u, save) ==
    /\ update' = Update("command", u, <<"/start">>)
    /\ IF u \in admin_users
          THEN /\ sent' = <<Msg(u, "admin_welcome_back", 0, TRUE)>>
               /\ UNCHANGED rosterVars
          ELSE /\ SetRoster(register_regular(admin_users, regular_users, u), save)
               /\ sent' = <<Msg(u, "welcome", 0, TRUE), Msg(u, "question", 0, TRUE)>>
    /\ console' = {}
    /\ UNCHANGED <<user_data, logVars>>

\* What /stats shows: today's counters, or that there are none.
stats_text(f, d) ==
    IF ~f.valid THEN "Error getting stats"
    ELSE IF d \notin DOMAIN f.logs THEN "No data available for today."
    ELSE "Daily Statistics"

logs_text(f) ==
    IF ~f.valid THEN "Error getting logs"
    ELSE IF DOMAIN f.logs = {} THEN "No logs available."
    ELSE "Available Log Dates"

\* /admin, /stats, /logs, /users: the reply to user u.
admin_command_reply(u) ==
    IF u \notin admin_users THEN NOT_AVAILABLE ELSE "ADMIN PANEL"

stats_command_reply(u) ==
    IF u \notin admin_users THEN NOT_AVAILABLE ELSE stats_text(log_file, today)

logs_command_reply(u) ==
    IF u \notin admin_users THEN NOT_AVAILABLE ELSE logs_text(log_file)

users_command_reply(u) ==
    IF u \notin admin_users THEN NOT_AVAILABLE ELSE "USER MANAGEMENT"

Reply(u, command, text) ==
    /\ update' = Update("command", u, <<command>>)
    /\ sent' = <<Msg(u, text, 0, TRUE)>>
    /\ console' = {}
    /\ UNCHANGED <<rosterVars, user_data, logVars>>

admin_command(u) == Reply(u, "/admin", admin_command_reply(u))

stats_command(u) == Reply(u, "/stats", stats_command_reply(u))

logs_command(u) == Reply(u, "/logs", logs_command_reply(u))

users_command(u) == Reply(u, "/users", users_command_reply(u))

\* /exit
exit_command(u, save) ==
    /\ update' = Update("command", u, <<"/exit">>)
    /\ IF u \notin admin_users
          THEN /\ sent' = <<Msg(u, NOT_IN_ADMIN_MODE, 0, TRUE)>>
               /\ UNCHANGED rosterVars
          ELSE /\ SetRoster(demote(admin_users, regular_users, u), save)
               /\ sent' = <<Msg(u, "exited admin mode", 0, TRUE)>>
    /\ console' = {}
    /\ UNCHANGED <<user_data, logVars>>

\* ---------------------------------------------------------- text messages
\* The branch of handle_message that consumes a pending action.
has_pending_BUG(u) == user_data[u] # NoAction

has_pending(u) == u \in admin_users /\ user_data[u] # NoAction

clear_pending_BUG(ud, u) == ud

clear_pending(ud, u) == [ud EXCEPT ![u] = NoAction]

handle_message(u, text, save) ==
    /\ update' = Update("text", u, text)
    /\ console' = {}
    /\ UNCHANGED logVars
    /\ IF has_pending(u)
          THEN /\ user_data' = clear_pending(user_data, u)
               /\ IF isdigit(text)
                     THEN IF int_raises(text)
                             THEN \* int(text) raises: the handler ends here
                                  /\ sent' = << >>
                                  /\ UNCHANGED rosterVars
                          ELSE IF user_data[u] = "user_make_admin"
                             THEN /\ SetRoster(make_admin(admin_users, regular_users, int(text)), save)
                                  /\ sent' = <<Msg(u, "is now an admin", int(text), TRUE)>>
                          ELSE IF remove_applies(admin_users, int(text))
                             THEN /\ SetRoster(demote(admin_users, regular_users, int(text)), save)
                                  /\ sent' = <<Msg(u, "removed from admins", int(text), TRUE)>>
                          ELSE /\ sent' = <<Msg(u, "is not an admin", int(text), TRUE)>>
                               /\ UNCHANGED rosterVars
                  ELSE IF startswith_at(text)
                     THEN /\ sent' = <<Msg(u, "Username lookup not implemented yet", 0, TRUE)>>
                          /\ UNCHANGED rosterVars
                  ELSE /\ sent' = <<Msg(u, "Invalid user ID format", 0, TRUE)>>
                       /\ UNCHANGED rosterVars
       ELSE IF text = admin_code
          THEN /\ SetRoster(grant_admin(admin_users, regular_users, u), save)
               /\ sent' = <<Msg(u, "Admin access granted", 0, TRUE)>>
               /\ UNCHANGED user_data
       ELSE /\ sent' = << >>
            /\ UNCHANGED <<rosterVars, user_data>>


\* ---------------------------------------------------------------- buttons
\* handle_callback checks no role: any user holding an old message can tap
\* any of its buttons.
ViewButtons == {"admin_back", "admin_stats", "admin_logs", "admin_users", "user_refresh"}

view_text(data) ==
    CASE data = "admin_back" -> "ADMIN PANEL"
      [] data = "admin_stats" -> stats_text(log_file, today)
      [] data = "admin_logs" -> logs_text(log_file)
      [] OTHER -> "USER MANAGEMENT"

\* admin_back, admin_stats, admin_logs, admin_users, user_refresh
callback_view(u, data) ==
    /\ update' = Update("callback", u, <<data>>)
    /\ sent' = <<Msg(u, view_text(data), 0, TRUE)>>
    /\ console' = {}
    /\ UNCHANGED <<rosterVars, user_data, logVars>>

\* admin_exit
callback_admin_exit(u, save) ==
    /\ update' = Update("callback", u, <<"admin_exit">>)
    /\ IF u \in admin_users
          THEN /\ SetRoster(demote(admin_users, regular_users, u), save)
               /\ sent' = <<Msg(u, "exited admin mode", 0, TRUE)>>
          ELSE /\ sent' = << >>
               /\ UNCHANGED rosterVars
    /\ console' = {}
    /\ UNCHANGED <<user_data, logVars>>

callback_pending_BUG(u, data) ==
    /\ update' = Update("callback", u, <<data>>)
    /\ sent' = <<Msg(u, "To manage users, send me their user ID or username", 0, TRUE)>>
    /\ user_data' = IF user_data[u] = NoAction THEN [user_data EXCEPT ![u] = data] ELSE user_data
    /\ console' = {}
    /\ UNCHANGED <<rosterVars, logVars>>

\* user_make_admin, user_remove_admin: the prompt is shown and the action
\* is stored for the next message.
callback_pending(u, data) ==
    /\ update' = Update("callback", u, <<data>>)
    /\ sent' = <<Msg(u, "To manage users, send me their user ID or username", 0, TRUE)>>
    /\ user_data' = [user_data EXCEPT ![u] = data]
    /\ console' = {}
    /\ UNCHANGED <<rosterVars, logVars>>

\* admin_users_return
callback_users_return(u) ==
    /\ update' = Update("callback", u, <<"admin_users_return">>)
    /\ user_data' = clear_pending(user_data, u)
    /\ sent' = <<Msg(u, "USER MANAGEMENT", 0, TRUE)>>
    /\ console' = {}
    /\ UNCHANGED <<rosterVars, logVars>>

\* ------------------------------------------------------------- yes and no
RECURSIVE SetToSeq(_)
SetToSeq(S) ==
    IF S = {} THEN << >>
    ELSE LET m == CHOOSE x \in S : \A y \in S : x <= y
         IN  <<m>> \o SetToSeq(S \ {m})

NOTIFICATION == "Notification from bot"

\* The loop over self.admin_users: one send_message per admin, each in its
\* own try; `failed` are the admins whose send raises.
notify_admins(admins, u, failed) ==
    [i \in 1..Cardinality(admins) |->
        Msg(SetToSeq(admins)[i], NOTIFICATION, u, SetToSeq(admins)[i] \notin failed)]

NO_ADMINS_LOG == "ADMIN NOTIFICATION (no admins set)"

\* Button yes.  A write of the log that raises ends the handler inside
\* log_response: nothing catches it.
handle_yes_choice(u, write, failed) ==
    /\ taps < MaxResponses
    /\ update' = Update("callback", u, <<"yes">>)
    /\ taps' = taps + 1
    /\ log_file' = log_response(log_file, today, u, user_info(u), "yes", now, write)
    /\ IF write # "ok"
          THEN sent' = << >> /\ console' = {}
       ELSE IF admin_users # {}
          THEN /\ sent' = <<Msg(u, "thank you", 0, TRUE)>> \o notify_admins(admin_users, u, failed)
               /\ console' = {}
       ELSE /\ sent' = <<Msg(u, "thank you", 0, TRUE)>>
            /\ console' = {NO_ADMINS_LOG}
    /\ UNCHANGED <<rosterVars, user_data, today, now, jobs, daily>>

\* context.job_queue.run_once(send_delayed_question, when=900, chat_id=user.id, ...)
reminder(u, t) == [name |-> <<"delayed_question", Chr(u)>>, chat_id |-> u, due |-> t + REMINDER_DELAY]

\* Button no.
handle_no_choice(u, write) ==
    /\ taps < MaxResponses
    /\ update' = Update("callback", u, <<"no">>)
    /\ taps' = taps + 1
    /\ log_file' = log_response(log_file, today, u, user_info(u), "no", now, write)
    /\ IF write # "ok"
          THEN sent' = << >> /\ UNCHANGED jobs
       ELSE /\ sent' = <<Msg(u, "will ask again", 0, TRUE)>>
            /\ jobs' = Append(jobs, reminder(u, now))
    /\ console' = {}
    /\ UNCHANGED <<rosterVars, user_data, today, now, daily>>

\* -------------------------------------------------------------- scheduler
RemoveAt(q, i) == SubSeq(q, 1, i - 1) \o SubSeq(q, i + 1, Len(q))

\* The job queue runs a due one-shot job and drops it.
send_delayed_question(i) ==
    /\ i \in 1..Len(jobs)
    /\ jobs[i].due <= now
    /\ update' = Update("job", jobs[i].chat_id, jobs[i].name)
    /\ sent' = <<Msg(jobs[i].chat_id, "question", 0, TRUE)>>
    /\ jobs' = RemoveAt(jobs, i)
    /\ console' = {}
    /\ UNCHANGED <<rosterVars, user_data, log_file, today, now, taps, daily>>

DAILY_JOB == <<"daily_message">>

\* The try/except inside the loop: the send to u went through, or its error
\* was logged and the loop goes on.
attempted(d, u, ok) ==
    [d EXCEPT !.yielded = @ \cup {u}, !.failed = IF ok THEN @ ELSE @ \cup {u}]

\* The head of `for user_id in self.regular_users`, the iterator's next(),
\* after which the job awaits send_message to `current`.  next() raises
\* RuntimeError when the size of the set differs from its size when the loop
\* began, and nothing in send_daily_message catches it.  A set that changed
\* and is back at that size is iterated in an unspecified way: an ID that
\* joined after the loop began may be yielded or missed.
loop_next(d) ==
    LET rest == regular_users \ d.yielded
    IN  \/ /\ Cardinality(regular_users) # d.size
           /\ daily' = [d EXCEPT !.pc = "aborted", !.current = 0]
        \/ /\ Cardinality(regular_users) = d.size
           /\ rest \subseteq Users \ d.start
           /\ daily' = [d EXCEPT !.pc = "done", !.current = 0]
        \/ /\ Cardinality(regular_users) = d.size
           /\ \E u \in rest : daily' = [d EXCEPT !.pc = "running", !.current = u]

\* The job queue starts send_daily_message; it runs up to its first await.
daily_start ==
    /\ daily.pc # "running"
    /\ loop_next([pc |-> "running", size |-> Cardinality(regular_users), current |-> 0,
                  start |-> regular_users, yielded |-> {}, failed |-> {}])
    /\ update' = Update("job", 0, DAILY_JOB)
    /\ sent' = << >>
    /\ console' = {}
    /\ UNCHANGED <<rosterVars, user_data, log_file, today, now, jobs, taps>>

\* The awaited send_message returns or raises, and the job runs up to its
\* next await or to its end.
daily_step ==
    /\ daily.pc = "running"
    /\ \E ok \in BOOLEAN :
          /\ loop_next(attempted(daily, daily.current, ok))
          /\ sent' = <<Msg(daily.current, "question", 0, ok)>>
    /\ update' = Update("job", 0, DAILY_JOB)
    /\ console' = {}
    /\ UNCHANGED <<rosterVars, user_data, log_file, today, now, jobs, taps>>

\* ---------------------------------------------------------------- restart
\* The process starts again: __init__ empties both sets and load_users reads
\* file f; user_data, the job queue and a running job are gone with the old
\* process.
restart(f) ==
    /\ admin_users' = load_users(f).admins
    /\ regular_users' = load_users(f).regulars
    /\ user_data' = [u \in Users |-> NoAction]
    /\ jobs' = << >>
    /\ daily' = NoBroadcast
    /\ sent' = << >>
    /\ console' = {}
    /\ UNCHANGED <<log_file, today, now, taps>>

\* The places in save_users where the process can die: before open(.., 'w'),
\* after it (the file is empty or holds a part of the JSON text), and after
\* json.dump has written everything.
CrashPoints == {"before_open", "after_open", "after_dump"}

crashed_file(f, admins, regulars, point) ==
    CASE point = "before_open" -> f
      [] point = "after_open" -> [valid |-> FALSE, admins |-> {}, regular_users |-> {}]
      [] OTHER -> [valid |-> TRUE, admins |-> admins, regular_users |-> regulars]

\* The rosters that /start, /exit or Exit Admin, and the admin code are about
\* to save in the current state.
PendingSaves ==
    {register_regular(admin_users, regular_users, u) : u \in Users \ admin_users}
        \cup {demote(admin_users, regular_users, u) : u \in admin_users}
        \cup {grant_admin(admin_users, regular_users, u) : u \in Users}

\* A handler has changed the sets to ro and the process dies inside
\* save_users, then starts again.
crash_in_save(ro, point) ==
    /\ users_file' = crashed_file(users_file, ro.admins, ro.regulars, point)
    /\ restart(users_file')
    /\ update' = Update("crash", 0, <<point>>)

\* The process is stopped between two updates and starts again.
clean_restart ==
    /\ restart(users_file)
    /\ update' = Update("restart", 0, << >>)
    /\ UNCHANGED users_file

\* Time passes.
Tick ==
    /\ now < MaxTicks * TickSeconds
    /\ now' = now + TickSeconds
    /\ UNCHANGED <<rosterVars, user_data, log_file, today, jobs, sent, console, update, taps, daily>>

\* Midnight: date.today() moves on.
NextDay ==
    /\ today < NumDates
    /\ today' = today + 1
    /\ UNCHANGED <<rosterVars, user_data, log_file, now, jobs, sent, console, update, taps, daily>>

\* --------------------------------------------------------- specifications
StartCommand == \E u \in Users : start_command(u, "ok")

AdminCommand == \E u \in Users : admin_command(u)

StatsCommand == \E u \in Users : stats_command(u)

LogsCommand == \E u \in Users : logs_command(u)

UsersCommand == \E u \in Users : users_command(u)

ExitCommand == \E u \in Users : exit_command(u, "ok")

HandleMessage == \E u \in Users, text \in Texts : handle_message(u, text, "ok")

CallbackView == \E u \in Users, data \in ViewButtons : callback_view(u, data)

CallbackAdminExit == \E u \in Users : callback_admin_exit(u, "ok")

CallbackPending ==
    \E u \in Users, data \in PendingActions : callback_pending(u, data)

CallbackUsersReturn == \E u \in Users : callback_users_return(u)

CallbackYes ==
    \E u \in Responders, write \in WriteOutcomes, failed \in SUBSET admin_users :
        handle_yes_choice(u, write, failed)

CallbackNo ==
    \E u \in Responders, write \in WriteOutcomes : handle_no_choice(u, write)

FireReminder == \E i \in 1..Len(jobs) : send_delayed_question(i)

DailyStart == daily_start

DailyStep == daily_step

\* The roster buttons tapped by users who are admins at that moment.
CallbackPendingByAdmin ==
    \E u \in admin_users, data \in PendingActions : callback_pending(u, data)

\* Roster and session: the updates that change a role or a pending action.
NextRoster ==
    \/ StartCommand
    \/ ExitCommand
    \/ HandleMessage
    \/ CallbackAdminExit
    \/ CallbackPending
    \/ CallbackUsersReturn

SpecRoster == Init /\ [][NextRoster]_vars

\* The same, with the roster buttons tapped by current admins only.
NextAdminTaps ==
    \/ StartCommand
    \/ ExitCommand
    \/ HandleMessage
    \/ CallbackAdminExit
    \/ CallbackPendingByAdmin
    \/ CallbackUsersReturn

SpecAdminTaps == Init /\ [][NextAdminTaps]_vars

\* The command surface and the menu buttons, with the role changes a user
\* can make for itself.
NextCommands ==
    \/ StartCommand
    \/ AdminCommand
    \/ StatsCommand
    \/ LogsCommand
    \/ UsersCommand
    \/ ExitCommand
    \/ CallbackView
    \/ CallbackAdminExit

SpecCommands == Init /\ [][NextCommands]_vars

\* Whoever taps yes or no was sent the question: after /start (a regular
\* user) or before becoming an admin.
InitKnown == Init /\ admin_users \cup regular_users = Users

\* The response log: the yes/no buttons over several days.
NextLog ==
    \/ CallbackYes
    \/ CallbackNo
    \/ NextDay

SpecLog == InitKnown /\ [][NextLog]_vars

\* The re-ask: the yes/no buttons, the clock and the job queue.
NextReminder ==
    \/ CallbackYes
    \/ CallbackNo
    \/ FireReminder
    \/ Tick

SpecReminder == InitKnown /\ [][NextReminder]_vars

\* The daily broadcast, with the updates by which users join or leave the
\* regular set while it runs.
NextBroadcast ==
    \/ DailyStart
    \/ DailyStep
    \/ StartCommand
    \/ ExitCommand
    \/ HandleMessage

SpecBroadcast == Init /\ [][NextBroadcast]_vars

\* The no button tapped by users who are regular at that moment.
CallbackNoByRegular ==
    \E u \in Responders \cap regular_users, write \in WriteOutcomes : handle_no_choice(u, write)

\* The re-ask of a user whose role changes while the reminder waits.
NextReask ==
    \/ CallbackNoByRegular
    \/ HandleMessage
    \/ FireReminder
    \/ Tick

SpecReask == Init /\ [][NextReask]_vars

CrashInSave == \E ro \in PendingSaves, point \in CrashPoints : crash_in_save(ro, point)

Restart == clean_restart

\* The roster across crashes inside save_users.
NextCrash ==
    \/ StartCommand
    \/ ExitCommand
    \/ HandleMessage
    \/ CrashInSave
    \/ Restart

SpecCrash == Init /\ [][NextCrash]_vars

\* The roster and the pending actions across restarts between updates.
NextRestart ==
    \/ NextRoster
    \/ Restart

SpecRestart == Init /\ [][NextRestart]_vars

Next == NextRoster \/ NextCommands \/ NextLog \/ NextReminder \/ NextBroadcast \/ NextReask \/ NextCrash \/ NextRestart

Spec == Init /\ [][Next]_vars


\* ----------------------------------------------------------------- claims
Days == read_logs(log_file)

RECURSIVE SumUserTotals(_, _)
SumUserTotals(users, keys) ==
    IF keys = {} THEN 0
    ELSE LET k == CHOOSE x \in keys : TRUE
         IN  users[k].total_responses + SumUserTotals(users, keys \ {k})

\* Number of raw events of the day by user n with the given choice.
CountEvents(day, n, choice) ==
    Cardinality({i \in 1..Len(day.responses) :
        day.responses[i].user_id = n /\ day.responses[i].response = choice})

\* C1: on every date of the log, total_responses = yes_responses + no_responses.
C1_TotalIsYesPlusNo ==
    \A d \in DOMAIN Days :
        Days[d].total_responses = Days[d].yes_responses + Days[d].no_responses

\* C1 witness: a day that holds a yes and a no.
C1_Witness ==
    \E d \in DOMAIN Days :
        /\ Days[d].yes_responses >= 1
        /\ Days[d].no_responses >= 1
        /\ Days[d].total_responses = 2

\* C2: on every date, total_responses equals the sum of the per-user
\* total_responses, also when a user responds more than once on that date.
C2_TotalIsSumOfUserTotals ==
    \A d \in DOMAIN Days :
        Days[d].total_responses = SumUserTotals(Days[d].users, DOMAIN Days[d].users)

\* C3: every per-user entry's yes_count and no_count equal the number of yes
\* and of no responses that user recorded on that date (no then yes by one
\* user: yes_count = 1 and no_count = 1).
C3_UserCountsMatchResponses ==
    \A d \in DOMAIN Days : \A k \in DOMAIN Days[d].users :
        /\ Days[d].users[k].yes_count = CountEvents(Days[d], k.val, "yes")
        /\ Days[d].users[k].no_count = CountEvents(Days[d], k.val, "no")


\* The role of user n: which of the two sets hold it.
Role(a, r, n) == <<n \in a, n \in r>>

\* C4: the admin set and the regular set are disjoint in every reachable state.
C4_RosterDisjoint == admin_users \cap regular_users = {}

\* C4 witness: a former admin was demoted by another admin who is still one.
C4_Witness ==
    \E a \in admin_users, t \in regular_users :
        sent = <<Msg(a, "removed from admins", t, TRUE)>>

\* The step handles a text message.
IsText == update'.kind = "text"

\* The step handles the command or the button named by data.
IsUpdate(kind, data) == update'.kind = kind /\ update'.data = <<data>>

\* C5: after an admin A tapped Make Admin or Remove Admin, A's next text
\* message leaves no pending action for A, whatever the text is.
C5_PendingClearedByNextText ==
    [][(/\ IsText
        /\ user_data[update'.user] # NoAction
        /\ handle_message(update'.user, update'.data, "ok"))
            => user_data'[update'.user] = NoAction]_vars

\* C6: completing remove_admin with a numeric target that is not in the admin
\* set leaves both sets and the persisted roster unchanged and replies that
\* the target is not an admin.
C6_RemoveNonAdminIsNoop ==
    [][(/\ IsText
        /\ has_pending(update'.user)
        /\ user_data[update'.user] = "user_remove_admin"
        /\ isdigit(update'.data) /\ ~int_raises(update'.data)
        /\ int(update'.data) \notin admin_users
        /\ handle_message(update'.user, update'.data, "ok"))
            => /\ UNCHANGED <<admin_users, regular_users, users_file>>
               /\ sent' = <<Msg(update'.user, "is not an admin", int(update'.data), TRUE)>>]_vars

\* C6 witness: an admin was told that a user outside both sets is not an admin.
C6_Witness ==
    \E a \in admin_users, t \in Users :
        /\ sent = <<Msg(a, "is not an admin", t, TRUE)>>
        /\ t \notin admin_users \cup regular_users
        /\ users_file = [valid |-> TRUE, admins |-> admin_users, regular_users |-> regular_users]

\* C7: when admin A with pending make_admin sends the numeric ID T, afterwards
\* T is an admin and not regular, A is still an admin, and no other user's
\* role has changed.
C7_MakeAdminPromotesTarget ==
    [][(/\ IsText
        /\ has_pending(update'.user)
        /\ user_data[update'.user] = "user_make_admin"
        /\ isdigit(update'.data) /\ ~int_raises(update'.data)
        /\ handle_message(update'.user, update'.data, "ok"))
            => /\ int(update'.data) \in admin_users'
               /\ int(update'.data) \notin regular_users'
               /\ update'.user \in admin_users'
               /\ \A o \in Users \ {int(update'.data)} :
                    Role(admin_users', regular_users', o) = Role(admin_users, regular_users, o)]_vars

\* C7 witness: an admin promoted another user while a third user is regular.
C7_Witness ==
    \E a \in admin_users : \E t \in admin_users \ {a} :
        /\ sent = <<Msg(a, "is now an admin", t, TRUE)>>
        /\ regular_users # {}

\* C8: /admin, /stats, /logs, /users and /exit from a user who is not an admin
\* are each answered with the same fixed "not available" message and change
\* no roster, pending-action or log state.
C8_NonAdminCommandsNotAvailable ==
    [][(/\ update'.kind = "command"
        /\ update'.user \notin admin_users
        /\ \/ admin_command(update'.user)
           \/ stats_command(update'.user)
           \/ logs_command(update'.user)
           \/ users_command(update'.user)
           \/ exit_command(update'.user, "ok"))
            => /\ sent' = <<Msg(update'.user, NOT_AVAILABLE, 0, TRUE)>>
               /\ UNCHANGED <<admin_users, regular_users, users_file, user_data, log_file>>]_vars

\* The notification attempts to admin a among the calls s.
Attempts(s, a) == Cardinality({i \in 1..Len(s) : s[i].kind = NOTIFICATION /\ s[i].to = a})

\* C9: on every yes response exactly one notification is attempted to each
\* admin of that moment and to nobody else; with no admin nothing is sent and
\* the event is logged locally.
C9_YesNotifiesEveryAdmin ==
    [][(/\ IsUpdate("callback", "yes")
        /\ \E write \in WriteOutcomes, failed \in SUBSET admin_users :
              handle_yes_choice(update'.user, write, failed))
            => /\ \A a \in Users : Attempts(sent', a) = IF a \in admin_users THEN 1 ELSE 0
               /\ admin_users = {} => console' = {NO_ADMINS_LOG}]_vars

\* C10: every no response by user U schedules one reminder for U, due 900
\* seconds after the response.
C10_NoSchedulesReminder ==
    [][(/\ IsUpdate("callback", "no")
        /\ \E write \in WriteOutcomes : handle_no_choice(update'.user, write))
            => \E i \in 1..Len(jobs') :
                  /\ jobs'[i].chat_id = update'.user
                  /\ jobs'[i].due = now + 900
                  /\ RemoveAt(jobs', i) = jobs]_vars

\* The reminders waiting in the job queue for user u.
Outstanding(u) == {i \in 1..Len(jobs) : jobs[i].chat_id = u}

\* C11: at most one reminder is outstanding per user at any time; a new no
\* response from a user who already has one waiting supersedes it.
C11_OneReminderPerUser == \A u \in Users : Cardinality(Outstanding(u)) <= 1

\* The step ends a run of the daily broadcast.
BroadcastEnds ==
    /\ daily'.pc \in {"done", "aborted"}
    /\ daily' # daily
    /\ daily_start \/ daily_step

\* C12: a daily broadcast attempts a send to every ID in the regular set,
\* whatever subset of the sends fails, and runs to completion.
C12_BroadcastReachesEveryone ==
    [][BroadcastEnds => /\ daily'.pc = "done"
                        /\ daily'.start \subseteq daily'.yielded]_vars

\* C13: a regular user who sends a text exactly equal to the admin code is
\* afterwards an admin, not regular, and has no pending action; a text that
\* differs from the code, by letter case included, never promotes its sender.
C13_AdminCodePromotesSender ==
    [][(/\ IsText
        /\ update'.user \notin admin_users
        /\ handle_message(update'.user, update'.data, "ok"))
            => IF update'.data = admin_code
                  THEN update'.user \in regular_users
                          => /\ update'.user \in admin_users'
                             /\ update'.user \notin regular_users'
                             /\ user_data'[update'.user] = NoAction
                  ELSE update'.user \notin admin_users']_vars

\* The calls s present the question to user u.
Asked(s, u) == \E i \in 1..Len(s) : s[i].to = u /\ s[i].kind = "question"

\* C14: /start from a user who is not an admin puts that user in the regular
\* set and presents the question; /start from an admin leaves both sets
\* unchanged and does not present the question.
C14_StartRegistersNonAdmin ==
    [][(IsUpdate("command", "/start") /\ start_command(update'.user, "ok"))
            => IF update'.user \notin admin_users
                  THEN /\ update'.user \in regular_users'
                       /\ Asked(sent', update'.user)
                  ELSE /\ UNCHANGED <<admin_users, regular_users>>
                       /\ ~Asked(sent', update'.user)]_vars

\* C14 witness: /start was handled for a user who is now regular and was sent
\* the question, while another user is an admin.
C14_Witness ==
    /\ update = Update("command", update.user, <<"/start">>)
    /\ update.user \in regular_users
    /\ Asked(sent, update.user)
    /\ admin_users # {}
    /\ users_file = [valid |-> TRUE, admins |-> admin_users, regular_users |-> regular_users]

\* The roster as save_users writes it.
Saved(a, r) == [valid |-> TRUE, admins |-> a, regular_users |-> r]

\* C15: after /exit or the Exit Admin button by an admin U, U is regular and
\* not an admin, the change is persisted, and no other user's role has
\* changed; the button pressed by a non-admin changes nothing.
C15_ExitDemotesSelf ==
    [][(\/ IsUpdate("command", "/exit") /\ update'.user \in admin_users
                                         /\ exit_command(update'.user, "ok")
        \/ IsUpdate("callback", "admin_exit") /\ callback_admin_exit(update'.user, "ok"))
            => IF update'.user \in admin_users
                  THEN /\ update'.user \in regular_users'
                       /\ update'.user \notin admin_users'
                       /\ users_file' = Saved(admin_users', regular_users')
                       /\ \A o \in Users \ {update'.user} :
                            Role(admin_users', regular_users', o) = Role(admin_users, regular_users, o)
                  ELSE /\ UNCHANGED <<admin_users, regular_users, users_file, user_data,
                                      log_file, jobs>>
                       /\ sent' = << >>]_vars

\* C15 witness: an admin left admin mode while another admin and another
\* regular user exist, and the file holds the new roster.
C15_Witness ==
    /\ update.kind \in {"command", "callback"}
    /\ update.data \in {<<"/exit">>, <<"admin_exit">>}
    /\ sent = <<Msg(update.user, "exited admin mode", 0, TRUE)>>
    /\ update.user \in regular_users
    /\ admin_users # {}
    /\ regular_users # {update.user}
    /\ users_file = Saved(admin_users, regular_users)

\* C16: when an admin with a pending action sends an @handle or any other
\* text that is not a numeric ID, the roster is unchanged in memory and in
\* the file, and the admin is told that the input is unsupported or invalid.
C16_NonNumericTargetRejected ==
    [][(/\ IsText
        /\ has_pending(update'.user)
        /\ isdigit(update'.data) => int_raises(update'.data)
        /\ handle_message(update'.user, update'.data, "ok"))
            => /\ UNCHANGED <<admin_users, regular_users, users_file>>
               /\ sent' = IF startswith_at(update'.data)
                             THEN <<Msg(update'.user, "Username lookup not implemented yet", 0, TRUE)>>
                             ELSE <<Msg(update'.user, "Invalid user ID format", 0, TRUE)>>]_vars

\* The calls s report a roster action that was carried out.
Fired(s) == \E i \in 1..Len(s) : s[i].kind \in {"is now an admin", "removed from admins"}

\* C17: a roster action fires at most once per prompt.  A text that carries
\* out a roster action uses up the sender's pending action, no text creates
\* one, and a numeric text from a sender without one changes nothing.
C17_ActionFiresOncePerPrompt ==
    [][(IsText /\ handle_message(update'.user, update'.data, "ok"))
            => /\ (Fired(sent') \/ (update'.data # admin_code
                                     /\ <<admin_users, regular_users>>' # <<admin_users, regular_users>>))
                    => /\ user_data[update'.user] \in PendingActions
                       /\ user_data'[update'.user] = NoAction
               /\ \A o \in Users : user_data[o] = NoAction => user_data'[o] = NoAction
               /\ (isdigit(update'.data) /\ user_data[update'.user] = NoAction)
                    => /\ UNCHANGED <<admin_users, regular_users, users_file>>
                       /\ sent' = << >>]_vars

\* C17 witness: an admin's text removed another admin, and the admin's
\* pending action is used up while another user's prompt is still open.
C17_Witness ==
    \E a \in admin_users, t \in regular_users :
        /\ sent = <<Msg(a, "removed from admins", t, TRUE)>>
        /\ update = Update("text", a, <<Chr(t)>>)
        /\ user_data[a] = NoAction
        /\ \E o \in Users \ {a} : user_data[o] \in PendingActions

\* The step handles a yes or no tap, and the write of the log in its call
\* of log_response succeeds.
Recorded ==
    /\ update'.kind = "callback"
    /\ update'.data \in {<<"yes">>, <<"no">>}
    /\ log_file' = log_response(log_file, today, update'.user, user_info(update'.user),
                                update'.data[1], now, "ok")

C19_OtherTextIsNoop ==
    [][(/\ IsText
        /\ update'.data # admin_code
        /\ update'.user \notin admin_users \/ user_data[update'.user] = NoAction
        /\ handle_message(update'.user, update'.data, "ok"))
            => /\ UNCHANGED <<admin_users, regular_users, users_file, user_data, log_file, jobs>>
               /\ sent' = << >>]_vars

\* C19 witness: a user who is not an admin, with a stored pending action,
\* sent the ID of an unknown user and nothing happened.
C19_Witness ==
    /\ update.kind = "text"
    /\ isdigit(update.data) /\ ~int_raises(update.data)
    /\ update.user \notin admin_users
    /\ user_data[update.user] \in PendingActions
    /\ int(update.data) \notin admin_users \cup regular_users
    /\ sent = << >>

\* C20: in every reachable state a pending action is stored only for a user
\* who currently is an admin.
C20_PendingOnlyForAdmins ==
    \A u \in Users : user_data[u] # NoAction => u \in admin_users

\* The step is a run of a scheduled job: a re-ask or a turn of the broadcast.
JobRuns ==
    \/ \E i \in 1..Len(jobs) : send_delayed_question(i)
    \/ daily_start
    \/ daily_step

\* C21: no question is sent to a user who is an admin when it is sent,
\* neither by the daily broadcast nor by a re-ask scheduled earlier.
C21_NoQuestionToAdmins ==
    [][JobRuns => \A u \in Users : Asked(sent', u) => u \notin admin_users]_vars

\* C22: a daily broadcast during whose awaits handlers change the regular
\* set still runs to completion, and has attempted a send to every user who
\* was in the regular set when it began and still is when it ends.
C22_BroadcastSurvivesRosterChanges ==
    [][(BroadcastEnds /\ regular_users # daily.start)
            => /\ daily'.pc = "done"
               /\ daily.start \cap regular_users \subseteq daily'.yielded]_vars

\* C23: a discarded pending action is never applied.  A tap on a roster
\* button replaces whatever action was stored; Back removes the stored action
\* and leaves the roster alone; a text promotes only under a stored
\* make_admin, demotes only under a stored remove_admin, and with nothing
\* stored a numeric text causes no roster mutation.
C23_DiscardedActionNeverApplied ==
    [][/\ (update'.kind = "callback" /\ update'.data[1] \in PendingActions
              /\ callback_pending(update'.user, update'.data[1]))
          => user_data'[update'.user] = update'.data[1]
       /\ (IsUpdate("callback", "admin_users_return") /\ callback_users_return(update'.user))
          => /\ user_data'[update'.user] = NoAction
             /\ UNCHANGED <<admin_users, regular_users, users_file>>
       /\ (IsText /\ isdigit(update'.data) /\ handle_message(update'.user, update'.data, "ok"))
          => /\ (\E i \in 1..Len(sent') : sent'[i].kind = "is now an admin")
                   => user_data[update'.user] = "user_make_admin"
             /\ (\E i \in 1..Len(sent') : sent'[i].kind \in {"removed from admins", "is not an admin"})
                   => user_data[update'.user] = "user_remove_admin"
             /\ admin_users' \ admin_users # {} => user_data[update'.user] = "user_make_admin"
             /\ admin_users \ admin_users' # {} => user_data[update'.user] = "user_remove_admin"
             /\ user_data[update'.user] = NoAction
                   => UNCHANGED <<admin_users, regular_users, users_file>>]_vars

\* C23 witness: an admin's text was carried out as a removal and used up the
\* admin's stored action, while the removed user still has one stored.
C23_Witness ==
    \E a \in admin_users, t \in regular_users :
        /\ update = Update("text", a, <<Chr(t)>>)
        /\ sent = <<Msg(a, "removed from admins", t, TRUE)>>
        /\ user_data[a] = NoAction
        /\ user_data[t] = "user_make_admin"

\* The step handles a yes or no tap whose write of the log raises.
WriteFails ==
    \/ /\ IsUpdate("callback", "yes")
       /\ \E write \in WriteOutcomes \ {"ok"}, failed \in SUBSET admin_users :
             handle_yes_choice(update'.user, write, failed)
    \/ /\ IsUpdate("callback", "no")
       /\ \E write \in WriteOutcomes \ {"ok"} : handle_no_choice(update'.user, write)

\* C24: a storage write failure while a yes or no is recorded does not abort
\* the handling: the user's message is still edited to the acknowledgement,
\* and the follow-up still happens (a notification attempt to every admin for
\* yes, a reminder scheduled for no).
C24_WriteFailureDoesNotAbort ==
    [][WriteFails
        => /\ Len(sent') >= 1
           /\ sent'[1].to = update'.user
           /\ sent'[1].kind = IF update'.data = <<"yes">> THEN "thank you" ELSE "will ask again"
           /\ update'.data = <<"yes">>
                 => \A a \in admin_users : Attempts(sent', a) = 1
           /\ update'.data = <<"no">>
                 => /\ Len(jobs') = Len(jobs) + 1
                    /\ jobs'[Len(jobs')] = reminder(update'.user, now)]_vars

\* C25: the roster is persisted by an atomic full-snapshot write.  When the
\* process dies at any point inside save_users and starts again, the loaded
\* roster is the whole roster before the mutation or the whole roster after
\* it, never an empty or partial one.
C25_CrashInSaveKeepsRoster ==
    [][\A ro \in PendingSaves, point \in CrashPoints :
          crash_in_save(ro, point)
              => Roster(admin_users', regular_users')
                     \in {Roster(admin_users, regular_users), ro}]_vars

\* C26: between updates, when every roster write has succeeded, the file holds
\* exactly the in-memory admin and regular sets, and a restart at such a point
\* loads the same two sets.
C26_FileMatchesMemory ==
    [][/\ users_file'.valid
       /\ load_users(users_file') = Roster(admin_users', regular_users')
       /\ clean_restart => UNCHANGED <<admin_users, regular_users, users_file>>]_vars

\* C26 witness: an admin has just promoted a regular user, and the file
\* holds the roster with the new admin.
C26_Witness ==
    \E a \in admin_users : \E t \in admin_users \ {a} :
        /\ update = Update("text", a, <<Chr(t)>>)
        /\ sent = <<Msg(a, "is now an admin", t, TRUE)>>
        /\ t \in users_file.admins
        /\ load_users(users_file) = Roster(admin_users, regular_users)

\* C27: only an admin can change another user's role.  A step that changes
\* the role of a user other than the sender of the handled event happens only
\* when the sender is in the admin set at that step.
C27_OnlyAdminsChangeOthers ==
    [][\A t \in Users \ {update'.user} :
          Role(admin_users', regular_users', t) # Role(admin_users, regular_users, t)
              => update'.user \in admin_users]_vars

\* C27 witness: an admin has made another user an admin, while a user who is
\* not an admin has a roster action stored.
C27_Witness ==
    \E a \in admin_users : \E t \in admin_users \ {a} :
        /\ update = Update("text", a, <<Chr(t)>>)
        /\ sent = <<Msg(a, "is now an admin", t, TRUE)>>
        /\ \E o \in Users \ admin_users : user_data[o] \in PendingActions

=============================================================================
